---- MODULE Spec2Model ----
(***************************************************************************)
(* A model of wsd_utils.py: the reversible tokenizer, the vocabulary       *)
(* builder and index, the sentence encoder, the data preparation driver    *)
(* and the bucketed reader.                                                *)
(*                                                                         *)
(* A Python string is modelled as a sequence of characters, each character *)
(* a one-character TLA+ string; a token is such a sequence too.  A text    *)
(* file is the sequence of its lines.                                      *)
(***************************************************************************)
EXTENDS Naturals, Integers, Sequences, FiniteSets, TLC

VARIABLES
  pc,                 \* position of the operation being run
  sentence,           \* tokenizer round trip: the input sentence
  words,              \* tokenizer round trip: basic_tokenizer's result
  text,               \* tokenizer round trip: basic_detokenizer's result
  data_file,          \* create_vocabulary: the corpus at data_path
  tokenizer,          \* "basic" or "space": the tokenizer passed in
  max_vocabulary_size,\* create_vocabulary's limit (None or a number)
  normalize_digits,   \* the normalize_digits flag passed in
  vocab_file,         \* the lines of the file at vocab_path
  vocab,              \* initialize_vocabulary: token -> id
  rev_vocab,          \* initialize_vocabulary: id -> token (1-based here)
  enc_sentence,       \* sentence_to_token_ids: its sentence
  token_ids,          \* sentence_to_token_ids: its result
  train_file,         \* prepare_ptb_data: ptb.train.txt
  dev_file,           \* prepare_ptb_data: ptb.valid.txt
  vocab_files,        \* data_dir: vocabulary_size -> vocab%d.txt
  train_ids_files,    \* data_dir: vocabulary_size -> ptb.train.txt.%d.ids
  dev_ids_files,      \* data_dir: vocabulary_size -> ptb.valid.txt.%d.ids
  last_run,           \* parameters of the last completed prepare_ptb_data
  runs,               \* number of completed prepare_ptb_data runs
  source_file,        \* read_data: the token-id file at source_path
  buckets,            \* read_data: the buckets
  max_size,           \* read_data: the line limit (None or a number)
  data_set,           \* read_data: the buckets' contents
  counter             \* read_data: lines read so far

tokVars  == <<sentence, words, text>>
vocVars  == <<data_file, tokenizer, max_vocabulary_size, normalize_digits,
              vocab_file, vocab, rev_vocab, enc_sentence, token_ids>>
prepVars == <<train_file, dev_file, vocab_files, train_ids_files,
              dev_ids_files, last_run, runs>>
readVars == <<source_file, buckets, max_size, data_set, counter>>
vars     == <<pc, tokVars, vocVars, prepVars, readVars>>

\* Python's None, where a number is optional (max_vocabulary_size, max_size)
None == -1

(***************************************************************************)
(* Bounds of the model.                                                    *)
(***************************************************************************)
MaxSentenceLen == 5
MaxCorpusLen   == 2
MaxVocabSize   == 6
MaxRuns        == 2
MaxIdLines     == 2
MaxIdLineLen   == 3

(***************************************************************************)
(* Module constants, lines 27-47.                                          *)
(***************************************************************************)
_PAD     == <<"_", "P", "A", "D">>
_HELDOUT == <<"_", "H", "E", "L", "D", "O", "U", "T">>
_EOS     == <<"_", "E", "O", "S">>
_UNK     == <<"_", "C", "H", "A", "R", "_", "U", "N", "K">>
_SPACE   == <<"_", "S", "P", "A", "C", "E">>
_START_VOCAB == <<_PAD, _HELDOUT, _EOS, _UNK>>

PAD_ID     == 0
HELDOUT_ID == 1
EOS_ID     == 2
UNK_ID     == 3

_CHAR_MARKER     == <<"_", "C", "H", "A", "R", "_">>
_CHAR_MARKER_LEN == Len(_CHAR_MARKER)
_SPEC_CHARS      == {"chr(226)", "chr(153)", "chr(128)"}
Digits           == {"0", "1", "2", "3", "4", "5", "6", "7", "8", "9"}
_PUNCTUATION ==
  {"]", "[", ".", ",", "!", "?", "chr(34)", "'", ":", ";", "%", "$", "#", "@",
   "&", "*", "+", "}", "{", "|", ">", "<", "=", "/", "^", "~", ")", "(",
   "_", "chr(96)", "-"} \cup Digits \cup _SPEC_CHARS
\* the character class of _WORD_SPLIT is the characters of _PUNCTUATION;
\* chr(34) is the double quote and chr(96) the backtick
_WORD_SPLIT     == _PUNCTUATION
_OLD_WORD_SPLIT == {".", ",", "!", "?", "chr(34)", "'", ":", ";", ")", "("}
_DIGIT_RE       == Digits
old_style       == FALSE

\* Python's whitespace, as far as the model's alphabet has it
Whitespace == {" ", "\t", "\n"}

(***************************************************************************)
(* Python string primitives.                                               *)
(***************************************************************************)
\* str.strip(): drop leading and trailing whitespace
RECURSIVE lstrip(_)
lstrip(s) == IF s # <<>> /\ Head(s) \in Whitespace THEN lstrip(Tail(s)) ELSE s

RECURSIVE rstrip(_)
rstrip(s) ==
  IF s # <<>> /\ s[Len(s)] \in Whitespace
  THEN rstrip(SubSeq(s, 1, Len(s) - 1)) ELSE s

strip(s) == rstrip(lstrip(s))

\* str.split() without arguments: the maximal runs of non-whitespace
RECURSIVE split_from(_, _, _)
split_from(s, cur, acc) ==
  IF s = <<>>
  THEN IF cur = <<>> THEN acc ELSE Append(acc, cur)
  ELSE IF Head(s) \in Whitespace
       THEN split_from(Tail(s), <<>>,
                       IF cur = <<>> THEN acc ELSE Append(acc, cur))
       ELSE split_from(Tail(s), Append(cur, Head(s)), acc)

split(s) == split_from(s, <<>>, <<>>)

\* " ".join(list)
RECURSIVE join(_)
join(l) ==
  IF l = <<>> THEN <<>>
  ELSE IF Len(l) = 1 THEN l[1]
  ELSE l[1] \o <<" ">> \o join(Tail(l))

\* "".join(list)
RECURSIVE concat(_)
concat(l) == IF l = <<>> THEN <<>> ELSE Head(l) \o concat(Tail(l))

\* re.split of a pattern "([...])" with one capturing group: the pieces
\* between the matches and the matched characters, empty pieces included
RECURSIVE re_split_from(_, _, _, _)
re_split_from(class, s, cur, acc) ==
  IF s = <<>> THEN Append(acc, cur)
  ELSE IF Head(s) \in class
       THEN re_split_from(class, Tail(s), <<>>,
                          Append(Append(acc, cur), <<Head(s)>>))
       ELSE re_split_from(class, Tail(s), Append(cur, Head(s)), acc)

re_split(class, s) == re_split_from(class, s, <<>>, <<>>)

\* [w for w in l if w]
nonempty(l) == SelectSeq(l, LAMBDA w : w # <<>>)

\* re.sub(_DIGIT_RE, "0", w)
sub_digits(w) == [i \in 1..Len(w) |-> IF w[i] \in _DIGIT_RE THEN "0" ELSE w[i]]

(***************************************************************************)
(* is_char, lines 140-144.                                                 *)
(***************************************************************************)
is_char(token) ==
  /\ Len(token) > _CHAR_MARKER_LEN
  /\ SubSeq(token, 1, _CHAR_MARKER_LEN) = _CHAR_MARKER

(***************************************************************************)
(* basic_detokenizer, lines 146-163.  The loop state is                    *)
(* <<result, previous_nospace>>.                                           *)
(***************************************************************************)
\* (a variant that leaves a space pending after a character token)
detok_step_glued(st, t) ==
  IF is_char(t)
  THEN <<Append(st[1], SubSeq(t, _CHAR_MARKER_LEN + 1, Len(t))), FALSE>>
  ELSE IF t = _SPACE THEN <<Append(st[1], <<" ">>), TRUE>>
  ELSE IF st[2] THEN <<Append(st[1], t), FALSE>>
  ELSE <<st[1] \o << <<" ">>, t >>, FALSE>>

detok_step(st, t) ==
  IF is_char(t)
  THEN <<Append(st[1], SubSeq(t, _CHAR_MARKER_LEN + 1, Len(t))), TRUE>>
  ELSE IF t = _SPACE THEN <<Append(st[1], <<" ">>), TRUE>>
  ELSE IF st[2] THEN <<Append(st[1], t), FALSE>>
  ELSE <<st[1] \o << <<" ">>, t >>, FALSE>>

RECURSIVE detok_loop(_, _)
detok_loop(tokens, st) ==
  IF tokens = <<>> THEN st
  ELSE detok_loop(Tail(tokens), detok_step(st, Head(tokens)))

basic_detokenizer(tokens) == concat(detok_loop(tokens, <<<<>>, TRUE>>)[1])

(***************************************************************************)
(* basic_tokenizer, lines 167-191.                                         *)
(***************************************************************************)
\* lines 175-181: the fragment's pieces, single punctuation characters
\* re-tagged with the marker
mark_chars(tokens) ==
  [i \in 1..Len(tokens) |->
     IF Len(tokens[i]) = 1 /\ tokens[i][1] \in _PUNCTUATION
     THEN _CHAR_MARKER \o tokens[i] ELSE tokens[i]]

first_is_char(raw) ==
  raw # <<>> /\ Len(raw[1]) = 1 /\ raw[1][1] \in _PUNCTUATION

\* lines 184-189: a _SPACE between two adjacent tokens neither of which is
\* a character token (and the first of which is not _SPACE)
RECURSIVE spaced_tokens(_)
spaced_tokens(tokens) ==
  IF tokens = <<>> THEN <<>>
  ELSE IF Len(tokens) = 1 THEN tokens
  ELSE IF tokens[1] # _SPACE /\ ~(is_char(tokens[1]) \/ is_char(tokens[2]))
       THEN <<tokens[1], _SPACE>> \o spaced_tokens(Tail(tokens))
       ELSE <<tokens[1]>> \o spaced_tokens(Tail(tokens))

\* lines 175-190: what one fragment adds to words
fragment_tokens(ws, fragment) ==
  LET raw    == nonempty(re_split(_WORD_SPLIT, fragment))
      tokens == mark_chars(raw)
      pre    == IF /\ ws # <<>>
                   /\ ws[Len(ws)] # _SPACE
                   /\ (first_is_char(raw) \/ is_char(ws[Len(ws)]))
                THEN <<_SPACE>> \o tokens ELSE tokens
  IN  spaced_tokens(pre)

RECURSIVE tok_loop(_, _)
tok_loop(fragments, ws) ==
  IF fragments = <<>> THEN ws
  ELSE tok_loop(Tail(fragments), ws \o fragment_tokens(ws, Head(fragments)))

\* lines 170-173: the legacy branch
RECURSIVE old_tok_loop(_, _)
old_tok_loop(fragments, ws) ==
  IF fragments = <<>> THEN nonempty(ws)
  ELSE old_tok_loop(Tail(fragments),
                    ws \o re_split(_OLD_WORD_SPLIT, Head(fragments)))

basic_tokenizer(s) ==
  IF old_style
  THEN old_tok_loop(split(strip(s)), <<>>)
  ELSE tok_loop(split(strip(s)), <<>>)

\* space_tokenizer, lines 193-194
space_tokenizer(s) == split(strip(s))

\* a call of the tokenizer argument
Tokenize(tk, s) == IF tk = "basic" THEN basic_tokenizer(s) ELSE space_tokenizer(s)

(***************************************************************************)
(* Sentences of the round trip: every string over Alphabet of at most      *)
(* MaxSentenceLen characters.                                              *)
(***************************************************************************)
Alphabet == {"a", "b", ",", "0", " ", "\t"}

Strings(n) == UNION {[1..k -> Alphabet] : k \in 0..n}

TokIdle  == sentence = <<>> /\ words = <<>> /\ text = <<>>
VocIdle  ==
  /\ data_file = <<>> /\ tokenizer = "space" /\ max_vocabulary_size = None
  /\ normalize_digits = FALSE /\ vocab_file = <<>> /\ vocab = <<>>
  /\ rev_vocab = <<>> /\ enc_sentence = <<>> /\ token_ids = <<>>
PrepIdle ==
  /\ train_file = <<>> /\ dev_file = <<>> /\ vocab_files = <<>>
  /\ train_ids_files = <<>> /\ dev_ids_files = <<>> /\ last_run = <<>>
  /\ runs = 0
ReadIdle ==
  /\ source_file = <<>> /\ buckets = <<>> /\ max_size = None
  /\ data_set = <<>> /\ counter = 0

(***************************************************************************)
(* The round trip: basic_tokenizer, then basic_detokenizer.                *)
(***************************************************************************)
TokInit ==
  /\ pc = "sentence"
  /\ sentence \in Strings(MaxSentenceLen)
  /\ words = <<>> /\ text = <<>>
  /\ VocIdle /\ PrepIdle /\ ReadIdle

BasicTokenizer ==
  /\ pc = "sentence"
  /\ words' = basic_tokenizer(sentence)
  /\ pc' = "tokens"
  /\ UNCHANGED <<sentence, text, vocVars, prepVars, readVars>>

BasicDetokenizer ==
  /\ pc = "tokens"
  /\ text' = basic_detokenizer(words)
  /\ pc' = "text"
  /\ UNCHANGED <<sentence, words, vocVars, prepVars, readVars>>

TokNext == BasicTokenizer \/ BasicDetokenizer

SpecTok == TokInit /\ [][TokNext]_vars

\* the sentence with every whitespace run collapsed to one space and the
\* leading and trailing whitespace removed
RECURSIVE normalize_whitespace_from(_, _, _)
normalize_whitespace_from(s, out, pending) ==
  IF s = <<>> THEN out
  ELSE IF Head(s) \in Whitespace
       THEN normalize_whitespace_from(Tail(s), out, out # <<>>)
       ELSE normalize_whitespace_from(
              Tail(s),
              (IF pending THEN Append(out, " ") ELSE out) \o <<Head(s)>>,
              FALSE)

normalize_whitespace(s) == normalize_whitespace_from(s, <<>>, FALSE)

\* C1: with old_style off, detokenizing the tokens of a sentence gives the
\* sentence with its whitespace runs collapsed to single spaces and its
\* leading and trailing whitespace removed.
C1_RoundTrip ==
  pc = "text" => text = normalize_whitespace(sentence)

\* C1's case: a sentence with a word, punctuation and a whitespace run has
\* been tokenized (with an explicit _SPACE token) and detokenized.
C1_Witness ==
  /\ pc = "text"
  /\ \E i \in 1..Len(words) : words[i] = _SPACE
  /\ \E i \in 1..Len(words) : is_char(words[i])
  /\ \E i \in 1..Len(words) : ~is_char(words[i]) /\ words[i] # _SPACE
  /\ Len(text) < Len(sentence)

(***************************************************************************)
(* Corpora.  A corpus is written as a sequence of at most MaxCorpusLen     *)
(* items, each a word of WordPool or a line break; its file is the         *)
(* sequence of its lines, each ending in "\n", the words of a line         *)
(* separated by single spaces.                                             *)
(***************************************************************************)
WordPool == { <<"a">>, <<"b", "7">>, <<"0">>, _PAD }
NL       == <<"\n">>

Scripts(n) == UNION {[1..k -> WordPool \cup {NL}] : k \in 0..n}

RECURSIVE script_lines(_, _, _)
script_lines(script, cur, acc) ==
  IF script = <<>>
  THEN IF cur = <<>> THEN acc ELSE Append(acc, join(cur) \o NL)
  ELSE IF Head(script) = NL
       THEN script_lines(Tail(script), <<>>, Append(acc, join(cur) \o NL))
       ELSE script_lines(Tail(script), Append(cur, Head(script)), acc)

Corpora == {script_lines(sc, <<>>, <<>>) : sc \in Scripts(MaxCorpusLen)}

VocabSizes == {None} \cup (0..MaxVocabSize)

\* Python truthiness of an optional number
Truthy(n) == n # None /\ n # 0

Range(f) == {f[i] : i \in DOMAIN f}

RECURSIVE Perms(_)
Perms(S) ==
  IF S = {} THEN {<<>>}
  ELSE UNION {{<<x>> \o p : p \in Perms(S \ {x})} : x \in S}

(***************************************************************************)
(* create_vocabulary, lines 218-247.                                       *)
(***************************************************************************)
\* lines 221-229: the (digit-normalized) tokens of the corpus, in order
RECURSIVE corpus_words(_, _, _)
corpus_words(data, tk, nd) ==
  IF data = <<>> THEN <<>>
  ELSE LET line   == join(split(Head(data)))
           tokens == Tokenize(tk, line)
       IN  [i \in 1..Len(tokens) |->
              IF nd THEN sub_digits(tokens[i]) ELSE tokens[i]]
           \o corpus_words(Tail(data), tk, nd)

\* lines 230-233: the counting dict, a function from its keys to counts
RECURSIVE count_words(_, _)
count_words(ws, d) ==
  IF ws = <<>> THEN d
  ELSE LET word == Head(ws)
       IN  count_words(Tail(ws),
             [w \in DOMAIN d \cup {word} |->
                IF w = word
                THEN (IF word \in DOMAIN d THEN d[word] + 1 ELSE 1)
                ELSE d[w]])

\* sorted(..., reverse=True) is stable: an element goes after every
\* element whose key is at least its own
RECURSIVE insert_desc(_, _, _)
insert_desc(sorted, x, d) ==
  IF sorted = <<>> THEN <<x>>
  ELSE IF d[Head(sorted)] >= d[x]
       THEN <<Head(sorted)>> \o insert_desc(Tail(sorted), x, d)
       ELSE <<x>> \o sorted

RECURSIVE sort_from(_, _, _)
sort_from(keys, acc, d) ==
  IF keys = <<>> THEN acc
  ELSE sort_from(Tail(keys), insert_desc(acc, Head(keys), d), d)

\* (a variant that does not sort: the dict's own order)
sorted_by_count_unsorted(keys, d) == keys

\* line 235: sorted(vocab, key=vocab.get, reverse=True), keys being the
\* dict's keys in its iteration order
sorted_by_count(keys, d) == sort_from(keys, <<>>, d)

\* (a variant that never truncates)
truncate_never(vocab_list, K) == vocab_list

\* lines 238-243
truncate(vocab_list, K) ==
  IF Truthy(K) /\ Len(vocab_list) > K
  THEN SubSeq(vocab_list, 1, K) ELSE vocab_list

\* lines 218-247: the lines written to vocab_path, given the iteration
\* order of the counting dict
create_vocabulary(data, tk, K, nd, keys) ==
  LET d           == count_words(corpus_words(data, tk, nd), <<>>)
      sorted_vocab == sorted_by_count(keys, d)
      vocab_list   == truncate(_START_VOCAB \o sorted_vocab, K)
  IN  [i \in 1..Len(vocab_list) |-> vocab_list[i] \o NL]

\* The iteration orders of the counting dict.  The language fixes none
\* before Python 3.7 (the module is Python 2 code: xrange, byte-wise
\* chr()), so every order of the keys is an outcome of some build.
DictOrders(data, tk, nd) ==
  Perms(DOMAIN count_words(corpus_words(data, tk, nd), <<>>))

(***************************************************************************)
(* initialize_vocabulary, lines 268-274.  rev_vocab is 1-based here: the   *)
(* token with id i is rev_vocab[i + 1].                                    *)
(***************************************************************************)
read_rev_vocab(file) == [i \in 1..Len(file) |-> strip(file[i])]

\* dict([(x, y) for (y, x) in enumerate(rev_vocab)]): a later pair
\* replaces an earlier one with the same key
dict_of(rv) ==
  [x \in Range(rv) |->
     (CHOOSE i \in 1..Len(rv) :
        rv[i] = x /\ \A j \in 1..Len(rv) : rv[j] = x => j <= i) - 1]

(***************************************************************************)
(* sentence_to_token_ids, lines 296-305.                                   *)
(***************************************************************************)
\* (a variant that skips a token the vocabulary does not have)
RECURSIVE encode_loop_dropping(_, _, _, _)
encode_loop_dropping(ws, vocabulary, nd, result) ==
  IF ws = <<>> THEN result
  ELSE LET w == IF nd THEN sub_digits(Head(ws)) ELSE Head(ws)
       IN  encode_loop_dropping(Tail(ws), vocabulary, nd,
             IF w \in DOMAIN vocabulary
             THEN Append(result, vocabulary[w])
             ELSE result)

RECURSIVE encode_loop(_, _, _, _)
encode_loop(ws, vocabulary, nd, result) ==
  IF ws = <<>> THEN result
  ELSE LET w == IF nd THEN sub_digits(Head(ws)) ELSE Head(ws)
       IN  encode_loop(Tail(ws), vocabulary, nd,
             IF w \in DOMAIN vocabulary
             THEN Append(result, vocabulary[w])
             ELSE Append(result, UNK_ID))

sentence_to_token_ids_dropping(s, vocabulary, tk, nd) ==
  encode_loop_dropping(Tokenize(tk, s), vocabulary, nd, <<>>)

sentence_to_token_ids(s, vocabulary, tk, nd) ==
  encode_loop(Tokenize(tk, s), vocabulary, nd, <<>>)

(***************************************************************************)
(* Building, loading and using one vocabulary.                             *)
(***************************************************************************)
\* the sentences encoded
Probes ==
  { <<"a", " ", "b", "7">>,
    <<"0", " ", " ", "_", "P", "A", "D", "\n">>,
    <<"b", "7", ",", "a", " ", "7">>,
    <<>> }

VocInit ==
  /\ pc = "corpus"
  /\ data_file \in Corpora
  /\ tokenizer \in {"basic", "space"}
  /\ max_vocabulary_size \in VocabSizes
  /\ normalize_digits \in BOOLEAN
  /\ vocab_file = <<>> /\ vocab = <<>> /\ rev_vocab = <<>>
  /\ enc_sentence = <<>> /\ token_ids = <<>>
  /\ TokIdle /\ PrepIdle /\ ReadIdle

CreateVocabulary ==
  /\ pc = "corpus"
  /\ \E keys \in DictOrders(data_file, tokenizer, normalize_digits) :
       vocab_file' = create_vocabulary(data_file, tokenizer,
                       max_vocabulary_size, normalize_digits, keys)
  /\ pc' = "vocab_written"
  /\ UNCHANGED <<data_file, tokenizer, max_vocabulary_size, normalize_digits,
                 vocab, rev_vocab, enc_sentence, token_ids,
                 tokVars, prepVars, readVars>>

InitializeVocabulary ==
  /\ pc = "vocab_written"            \* line 268: the file exists
  /\ rev_vocab' = read_rev_vocab(vocab_file)
  /\ vocab' = dict_of(read_rev_vocab(vocab_file))
  /\ pc' = "vocab_loaded"
  /\ UNCHANGED <<data_file, tokenizer, max_vocabulary_size, normalize_digits,
                 vocab_file, enc_sentence, token_ids,
                 tokVars, prepVars, readVars>>

SentenceToTokenIds ==
  /\ pc = "vocab_loaded"
  /\ \E s \in Probes :
       /\ enc_sentence' = s
       /\ token_ids' = sentence_to_token_ids(s, vocab, tokenizer,
                                             normalize_digits)
  /\ pc' = "encoded"
  /\ UNCHANGED <<data_file, tokenizer, max_vocabulary_size, normalize_digits,
                 vocab_file, vocab, rev_vocab, tokVars, prepVars, readVars>>

VocNext == CreateVocabulary \/ InitializeVocabulary \/ SentenceToTokenIds

SpecVoc == VocInit /\ [][VocNext]_vars

\* the tokens of the vocabulary file, the line ends removed
VocabList == [i \in 1..Len(vocab_file) |-> strip(vocab_file[i])]

\* the corpus tokens as the builder counts them
CorpusWords == corpus_words(data_file, tokenizer, normalize_digits)

Written == pc \in {"vocab_written", "vocab_loaded", "encoded"}

StartsWithReserved ==
  /\ Len(VocabList) >= Len(_START_VOCAB)
  /\ SubSeq(VocabList, 1, Len(_START_VOCAB)) = _START_VOCAB

\* C2 as claimed: for every limit K the written vocabulary has at most K
\* entries and starts with the four reserved symbols in order.
C2_AnySize ==
  (Written /\ max_vocabulary_size # None) =>
    (Len(VocabList) <= max_vocabulary_size /\ StartsWithReserved)

\* C2: for every limit K >= 4 the written vocabulary has at most K entries
\* and its first four entries are _PAD, _HELDOUT, _EOS, _CHAR_UNK in order.
C2_SizeBound ==
  (Written /\ max_vocabulary_size # None /\ max_vocabulary_size >= 4) =>
    (Len(VocabList) <= max_vocabulary_size /\ StartsWithReserved)

\* C2's case: a limit of at least 4 that cut corpus tokens off.
C2_Witness ==
  /\ Written /\ max_vocabulary_size # None /\ max_vocabulary_size >= 5
  /\ Len(VocabList) = max_vocabulary_size
  /\ Cardinality(Range(CorpusWords)) + 4 > max_vocabulary_size

Loaded == pc \in {"vocab_loaded", "encoded"}

\* C3 as claimed: the loaded vocabulary's lines are distinct tokens, every
\* id i has vocab[rev_vocab[i]] = i, and each reserved symbol the file
\* holds has its fixed id, whatever the corpus and the tokenizer.
C3_DistinctStable ==
  Loaded =>
    /\ \A i, j \in 1..Len(rev_vocab) : rev_vocab[i] = rev_vocab[j] => i = j
    /\ \A i \in 1..Len(rev_vocab) : vocab[rev_vocab[i]] = i - 1
    /\ \A i \in 1..Len(_START_VOCAB) :
         i <= Len(rev_vocab) => vocab[_START_VOCAB[i]] = i - 1

\* the tokens of the encoded sentence, digit-normalized as asked
EncWords ==
  LET toks == Tokenize(tokenizer, enc_sentence)
  IN  [i \in 1..Len(toks) |->
         IF normalize_digits THEN sub_digits(toks[i]) ELSE toks[i]]

\* C4: sentence_to_token_ids returns one id per token of the tokenizer, in
\* order: the vocabulary's id of the (digit-normalized) token when the
\* vocabulary has it, UNK_ID otherwise.
C4_UnknownHandling ==
  pc = "encoded" =>
    /\ Len(token_ids) = Len(Tokenize(tokenizer, enc_sentence))
    /\ \A i \in 1..Len(token_ids) :
         token_ids[i] = IF EncWords[i] \in DOMAIN vocab
                        THEN vocab[EncWords[i]] ELSE UNK_ID

\* C4's case: a sentence encoded with a known corpus token before an
\* unknown one and a known one after it.
C4_Witness ==
  /\ pc = "encoded"
  /\ \E i, j, k \in 1..Len(token_ids) :
       /\ i < j /\ j < k
       /\ EncWords[i] \in DOMAIN vocab /\ token_ids[i] > UNK_ID
       /\ EncWords[j] \notin DOMAIN vocab /\ token_ids[j] = UNK_ID
       /\ EncWords[k] \in DOMAIN vocab /\ token_ids[k] > UNK_ID

\* the vocabulary's entries after the reserved symbols
Body ==
  IF Len(VocabList) > Len(_START_VOCAB)
  THEN SubSeq(VocabList, Len(_START_VOCAB) + 1, Len(VocabList)) ELSE <<>>

\* the frequency of every token of a token sequence
FreqOf(cw) ==
  [w \in Range(cw) |-> Cardinality({i \in 1..Len(cw) : cw[i] = w})]

\* the position of the first occurrence of every token of a token sequence
FirstSeenOf(cw) ==
  [w \in Range(cw) |-> CHOOSE i \in 1..Len(cw) :
                         cw[i] = w /\ \A j \in 1..(i - 1) : cw[j] # w]

Truncated ==
  /\ Truthy(max_vocabulary_size)
  /\ Len(_START_VOCAB) + Cardinality(Range(CorpusWords)) > max_vocabulary_size

\* body: the corpus tokens cw, each once, in non-increasing frequency, the
\* tokens left out (only when truncated) no more frequent than any kept
ByFrequency(cw, body) ==
  LET freq    == FreqOf(cw)
      dropped == Range(cw) \ Range(body)
  IN  /\ \A i \in 1..Len(body) : body[i] \in Range(cw)
      /\ \A i, j \in 1..Len(body) : i < j => freq[body[i]] >= freq[body[j]]
      /\ \A i, j \in 1..Len(body) : i < j => body[i] # body[j]
      /\ ~Truncated => dropped = {}
      /\ \A w \in dropped : \A i \in 1..Len(body) : freq[w] <= freq[body[i]]

\* body: equally frequent tokens in the order of their first occurrence
TiesByEncounter(cw, body) ==
  LET freq  == FreqOf(cw)
      first == FirstSeenOf(cw)
  IN  \A i, j \in 1..Len(body) :
        (i < j /\ body[i] \in Range(cw) /\ body[j] \in Range(cw)
               /\ freq[body[i]] = freq[body[j]])
          => first[body[i]] < first[body[j]]

\* C8 as claimed: after the reserved symbols come the corpus tokens in
\* non-increasing frequency, equally frequent tokens in the order of their
\* first occurrence in the corpus, and truncation drops no token that is
\* strictly more frequent than a kept one.
C8_RankingStable ==
  pc = "vocab_written" =>
    LET cw == CorpusWords
        body == Body
    IN  ByFrequency(cw, body) /\ TiesByEncounter(cw, body)

\* C8: after the reserved symbols come the corpus tokens, each once, in
\* non-increasing frequency (the order of equally frequent tokens is not
\* fixed), and truncation drops no token that is strictly more frequent
\* than a kept one.
C8_Ranking ==
  pc = "vocab_written" =>
    LET cw == CorpusWords
        body == Body
    IN  ByFrequency(cw, body)

\* C8's case: the sort moved a more frequent token ahead of one seen
\* earlier, and truncation dropped a corpus token.
C8_Witness ==
  /\ pc = "vocab_written" /\ Truncated
  /\ Len(Body) >= 2
  /\ Range(CorpusWords) \ Range(Body) # {}
  /\ FreqOf(CorpusWords)[Body[1]] > FreqOf(CorpusWords)[Body[2]]
  /\ FirstSeenOf(CorpusWords)[Body[1]] > FirstSeenOf(CorpusWords)[Body[2]]

(***************************************************************************)
(* data_to_token_ids, lines 323-335, and prepare_ptb_data, lines 362-381.  *)
(* A file of data_dir is a record: whether it exists, and its lines.  A    *)
(* line of a token-id file is kept as the sequence of its ids.             *)
(***************************************************************************)
Absent      == [exists |-> FALSE, lines |-> <<>>]
File(lines) == [exists |-> TRUE, lines |-> lines]

\* lines 323-335: the target file afterwards
data_to_token_ids(data, target, vfile, tk, nd) ==
  IF ~target.exists
  THEN LET v == dict_of(read_rev_vocab(vfile.lines))
       IN  File([i \in 1..Len(data) |->
                   sentence_to_token_ids(data[i], v, tk, nd)])
  ELSE target

\* the vocabulary sizes of the runs (the file names carry the size): the
\* reserved symbols alone, and one corpus token more
PrepSizes == {Len(_START_VOCAB), Len(_START_VOCAB) + 1}

\* the corpora the provisioning may have put in data_dir; in each, one
\* token is the most frequent under either tokenizer, so that the
\* vocabulary of a run does not depend on the counting dict's order
PrepCorpora ==
  { script_lines(sc, <<>>, <<>>) :
      sc \in { << <<"a">>, <<"a">>, <<"0">> >>,
               << <<"b">>, <<"b">>, NL, <<"a">> >>,
               << <<"a">>, <<"b">>, <<"b">> >> } }

PrepInit ==
  /\ pc = "idle"
  /\ train_file \in PrepCorpora
  /\ dev_file \in PrepCorpora
  /\ vocab_files = [K \in PrepSizes |-> Absent]
  /\ train_ids_files = [K \in PrepSizes |-> Absent]
  /\ dev_ids_files = [K \in PrepSizes |-> Absent]
  /\ last_run = <<>>
  /\ runs = 0
  /\ TokIdle /\ VocIdle /\ ReadIdle

\* one run of prepare_ptb_data over data_dir
PreparePtbData ==
  /\ runs < MaxRuns
  /\ \E tk \in {"basic", "space"}, nd \in BOOLEAN, K \in PrepSizes :
       \E keys \in DictOrders(train_file, tk, nd) :
         LET vfile == File(create_vocabulary(train_file, tk, K, nd, keys))
         IN  /\ vocab_files' = [vocab_files EXCEPT ![K] = vfile]
             /\ train_ids_files' =
                  [train_ids_files EXCEPT
                     ![K] = data_to_token_ids(train_file, @, vfile, tk, nd)]
             /\ dev_ids_files' =
                  [dev_ids_files EXCEPT
                     ![K] = data_to_token_ids(dev_file, @, vfile, tk, nd)]
             /\ last_run' = <<tk, K, nd>>
  /\ runs' = runs + 1
  /\ pc' = "prepared"
  /\ UNCHANGED <<train_file, dev_file, tokVars, vocVars, readVars>>

\* between runs the corpus in data_dir is replaced
ReplaceCorpus ==
  /\ runs < MaxRuns
  /\ \E c \in PrepCorpora : c # train_file /\ train_file' = c
  /\ pc' = "idle"
  /\ UNCHANGED <<dev_file, vocab_files, train_ids_files, dev_ids_files,
                 last_run, runs, tokVars, vocVars, readVars>>

PrepNext == PreparePtbData \/ ReplaceCorpus

SpecPrep == PrepInit /\ [][PrepNext]_vars

\* the token-id lines of a corpus under the vocabulary file on disk
FreshIds(data, K, tk, nd) ==
  LET v == dict_of(read_rev_vocab(vocab_files[K].lines))
  IN  [i \in 1..Len(data) |-> sentence_to_token_ids(data[i], v, tk, nd)]

\* C10 as claimed: when a run of prepare_ptb_data has completed, every line
\* of its two token-id files is sentence_to_token_ids of the corresponding
\* corpus line under the vocabulary file the run has just written.
C10_IdsFresh ==
  pc = "prepared" =>
    LET tk == last_run[1]
        K  == last_run[2]
        nd == last_run[3]
    IN  /\ train_ids_files[K].exists /\ dev_ids_files[K].exists
        /\ train_ids_files[K].lines = FreshIds(train_file, K, tk, nd)
        /\ dev_ids_files[K].lines = FreshIds(dev_file, K, tk, nd)

(***************************************************************************)
(* read_data, lines 80-106.                                                *)
(***************************************************************************)
IdPool == {EOS_ID, 10, 11, 12}

IdLines == UNION {[1..k -> IdPool] : k \in 0..MaxIdLineLen}

IdFiles == UNION {[1..n -> IdLines] : n \in 0..MaxIdLines}

BucketLists ==
  { << <<5, 10>>, <<10, 20>> >>,
    << <<2, 1>>, <<3, 1>> >>,
    << <<1, 1>> >> }

MaxSizes == {None} \cup (0..(MaxIdLines + 1))

ReadInit ==
  /\ pc = "call"
  /\ source_file \in IdFiles
  /\ buckets \in BucketLists
  /\ max_size \in MaxSizes
  /\ data_set = <<>>
  /\ counter = 0
  /\ TokIdle /\ VocIdle /\ PrepIdle

\* line 80
empty_data_set(bs) == [b \in 1..Len(bs) |-> <<>>]

\* line 85: the loop's condition; the line in source is line counter + 1
loop_condition ==
  /\ counter < Len(source_file)
  /\ (~Truthy(max_size) \/ counter < max_size)

\* lines 80-82 and 106 with max_size = 1: nothing is read
ReadDataNoWork ==
  /\ pc = "call" /\ max_size = 1
  /\ data_set' = empty_data_set(buckets)
  /\ counter' = 0
  /\ pc' = "returned"
  /\ UNCHANGED <<source_file, buckets, max_size, tokVars, vocVars, prepVars>>

\* lines 80-84: the file is opened and its first line read
ReadDataOpen ==
  /\ pc = "call" /\ max_size # 1
  /\ data_set' = empty_data_set(buckets)
  /\ counter' = 0
  /\ pc' = "loop"
  /\ UNCHANGED <<source_file, buckets, max_size, tokVars, vocVars, prepVars>>

\* lines 85-90: one turn of the loop.  The module defines no zero_split
\* and imports none, so line 90 raises NameError after the line's ids are
\* parsed; lines 93-105 are never run (line 94 would read the local
\* copy_source_ids before any assignment to it).
ReadDataLine ==
  /\ pc = "loop" /\ loop_condition
  /\ counter' = counter + 1
  /\ pc' = "NameError"
  /\ UNCHANGED <<source_file, buckets, max_size, data_set,
                 tokVars, vocVars, prepVars>>

\* lines 85 and 106: the loop ends and data_set is returned
ReadDataReturn ==
  /\ pc = "loop" /\ ~loop_condition
  /\ pc' = "returned"
  /\ UNCHANGED <<readVars, tokVars, vocVars, prepVars>>

ReadNext ==
  ReadDataNoWork \/ ReadDataOpen \/ ReadDataLine \/ ReadDataReturn

SpecRead == ReadInit /\ [][ReadNext]_vars

Stopped == pc \in {"returned", "NameError"}

Reserved == {PAD_ID, HELDOUT_ID, EOS_ID, UNK_ID}

\* the instances a line of ids stands for: per position that holds no
\* reserved id, the line with that position masked, and the id masked
RECURSIVE InstancesFrom(_, _)
InstancesFrom(line, i) ==
  IF i > Len(line) THEN <<>>
  ELSE (IF line[i] \in Reserved THEN <<>>
        ELSE << <<[line EXCEPT ![i] = HELDOUT_ID], line[i]>> >>)
       \o InstancesFrom(line, i + 1)

Instances(line) == InstancesFrom(line, 1)

\* the instances of the lines read so far, in order
RECURSIVE InstancesOfLines(_)
InstancesOfLines(n) ==
  IF n = 0 THEN <<>>
  ELSE InstancesOfLines(n - 1) \o Instances(source_file[n])

\* the first bucket whose ceilings dominate the instance's source length
\* and its target length (one id), 0 when there is none
FirstFit(inst) ==
  LET fits == {b \in 1..Len(buckets) :
                 Len(inst[1]) <= buckets[b][1] /\ 1 <= buckets[b][2]}
  IN  IF fits = {} THEN 0 ELSE CHOOSE b \in fits : \A c \in fits : b <= c

\* C5 as claimed: when read_data stops, every instance of a line it read is
\* in exactly one bucket, the first that fits it, and in none when no
\* bucket fits.
C5_FirstFit ==
  Stopped =>
    \A k \in 1..counter :
      \A n \in 1..Len(Instances(source_file[k])) :
        LET inst == Instances(source_file[k])[n]
        IN  \A b \in 1..Len(buckets) :
              (inst \in Range(data_set[b])) <=> (b = FirstFit(inst))

\* C6 as claimed: when read_data stops, the buckets hold, in order, the
\* instances of the lines read: one per position without a reserved id,
\* the line with only that position replaced by HELDOUT_ID as source and
\* the replaced id as target.
C6_Heldout ==
  Stopped =>
    \A b \in 1..Len(buckets) :
      data_set[b] =
        SelectSeq(InstancesOfLines(counter), LAMBDA e : FirstFit(e) = b)

\* the lines max_size lets through
LineLimit ==
  IF max_size = 1 THEN 0
  ELSE IF ~Truthy(max_size) THEN Len(source_file)
  ELSE IF max_size < Len(source_file) THEN max_size ELSE Len(source_file)

\* C7 as claimed: when read_data stops it has read every line with
\* max_size 0 or None, the first min(n, lines) lines with max_size n >= 2,
\* and no line (one empty list per bucket) with max_size 1.
C7_LineLimit ==
  Stopped =>
    /\ counter = LineLimit
    /\ max_size = 1 => data_set = empty_data_set(buckets)

\* read_data stores no pair at all: the loop's first turn raises.
ReadDataStoresNothing ==
  pc # "call" => data_set = empty_data_set(buckets)

====
